---- MODULE Spec2Model ----
(***************************************************************************)
(* abook: audiobook bundles.  A model of src/abook/main.py (the domain     *)
(* model Duration / Chapter / Artifact / Audiofile / Abook and the         *)
(* commands do_init and do_transcode) and of src/abook/tagutils.py         *)
(* (get_tags).  Python str values are TLA+ strings; Python exceptions are  *)
(* result records [err, val] that every caller propagates.                 *)
(***************************************************************************)
EXTENDS Integers, Sequences, FiniteSets, TLC

\* ------------------------------------------------------------------ bounds
MaxFiles == 2
MaxTracks == 2
MaxChapters == 2
MaxArtifacts == 2

\* ------------------------------------------------------- program constants
DefaultMaxDelay == 1000
AbookVersion == 1

\* ---------------------------------------------------------- Python values
\* Python's None: a value outside every text the model draws.
None == "<None>"
NoErr == ""

Ok(v) == [err |-> NoErr, val |-> v]
Raise(e) == [err |-> e, val |-> None]

\* Python truthiness of an optional str, and of an optional list.
Truthy(x) == x # None /\ x # ""
TruthyList(x) == IF x = None THEN FALSE ELSE x # <<>>

\* d.get(k, default) on a document (a dict is a function on its keys).
DictGet(d, k, default) == IF k \in DOMAIN d THEN d[k] ELSE default

\* `x = value; ...`: the value is computed once and named.
Let(value, Body(_)) == CHOOSE out \in {Body(x) : x \in {value}} : TRUE

\* A call whose exception propagates: the rest runs on its value.
Then(result, Rest(_)) ==
  Let(result, LAMBDA r : IF r.err # NoErr THEN Raise(r.err) ELSE Rest(r.val))

\* The first error of a sequence of results, in evaluation order.
FirstErr(rs) ==
  IF \E i \in 1..Len(rs) : rs[i].err # NoErr
  THEN rs[CHOOSE i \in 1..Len(rs) :
            /\ rs[i].err # NoErr
            /\ \A j \in 1..(i - 1) : rs[j].err = NoErr].err
  ELSE NoErr

Vals(rs) == [i \in 1..Len(rs) |-> rs[i].val]

\* A list comprehension whose elements may raise: the list, or the first error.
Collect(results) ==
  Let(results, LAMBDA rs : IF FirstErr(rs) # NoErr THEN Raise(FirstErr(rs))
                           ELSE Ok(Vals(rs)))

\* ------------------------------------------------------------------- text
CharAt(s, i) == SubSeq(s, i, i)

\* Characters in code-point order; Ord is the rank Python's str comparison uses.
Alphabet == " -./0123456789:ABCDEFGHIJKLMNOPQRSTUVWXYZ_abcdefghijklmnopqrstuvwxyz"
Ord(c) == CHOOSE i \in 1..Len(Alphabet) : CharAt(Alphabet, i) = c

Digits == "0123456789"
IsDigit(c) == \E i \in 1..10 : CharAt(Digits, i) = c
DigitVal(c) == (CHOOSE i \in 1..10 : CharAt(Digits, i) = c) - 1

RECURSIVE NatStr(_)
NatStr(n) ==
  IF n < 10 THEN CharAt(Digits, n + 1)
  ELSE NatStr(n \div 10) \o CharAt(Digits, (n % 10) + 1)

\* str(n) of a Python int.
IntStr(n) == IF n < 0 THEN "-" \o NatStr(-n) ELSE NatStr(n)

\* An optional int: <<>> is None, <<n>> is the int n.
NoneInt == <<>>
SomeInt(n) == <<n>>
\* str(x) of an optional int.
OptIntStr(x) == IF x = NoneInt THEN "None" ELSE IntStr(x[1])

RECURSIVE Zeros(_)
Zeros(n) == IF n <= 0 THEN "" ELSE "0" \o Zeros(n - 1)

\* f'{n:0<w>d}': zero padding after the sign up to width w.
ZFill(n, w) ==
  IF n < 0 THEN "-" \o Zeros(w - 1 - Len(NatStr(-n))) \o NatStr(-n)
  ELSE Zeros(w - Len(NatStr(n))) \o NatStr(n)

RECURSIVE NatOf(_)
NatOf(s) ==
  IF s = "" THEN 0
  ELSE NatOf(SubSeq(s, 1, Len(s) - 1)) * 10 + DigitVal(CharAt(s, Len(s)))

AllDigits(s) == s # "" /\ \A i \in 1..Len(s) : IsDigit(CharAt(s, i))

\* int(s) of a Python str accepts an optional sign before the digits.
IsIntText(s) ==
  IF s # "" /\ CharAt(s, 1) \in {"-", "+"}
  THEN AllDigits(SubSeq(s, 2, Len(s)))
  ELSE AllDigits(s)

IntOf(s) ==
  IF CharAt(s, 1) = "-" THEN 0 - NatOf(SubSeq(s, 2, Len(s)))
  ELSE IF CharAt(s, 1) = "+" THEN NatOf(SubSeq(s, 2, Len(s)))
  ELSE NatOf(s)

RECURSIVE Split(_, _)
Split(s, sep) ==
  IF \E i \in 1..Len(s) : CharAt(s, i) = sep
  THEN LET i == CHOOSE j \in 1..Len(s) :
                   /\ CharAt(s, j) = sep
                   /\ \A h \in 1..(j - 1) : CharAt(s, h) # sep
       IN <<SubSeq(s, 1, i - 1)>> \o Split(SubSeq(s, i + 1, Len(s)), sep)
  ELSE <<s>>

RECURSIVE Join(_, _)
Join(sep, xs) ==
  IF xs = <<>> THEN ""
  ELSE IF Len(xs) = 1 THEN xs[1]
  ELSE xs[1] \o sep \o Join(sep, Tail(xs))

\* Python's str < str: lexicographic by code point, a proper prefix first.
RECURSIVE StrLess(_, _)
StrLess(a, b) ==
  IF b = "" THEN FALSE
  ELSE IF a = "" THEN TRUE
  ELSE IF CharAt(a, 1) = CharAt(b, 1)
       THEN StrLess(SubSeq(a, 2, Len(a)), SubSeq(b, 2, Len(b)))
       ELSE Ord(CharAt(a, 1)) < Ord(CharAt(b, 1))

RECURSIVE Insert(_, _)
Insert(x, xs) ==
  IF xs = <<>> THEN <<x>>
  ELSE IF StrLess(x, xs[1]) THEN <<x>> \o xs
  ELSE <<xs[1]>> \o Insert(x, Tail(xs))

\* sorted(xs) of a list of str.
RECURSIVE Sorted(_)
Sorted(xs) == IF xs = <<>> THEN <<>> ELSE Insert(xs[1], Sorted(Tail(xs)))

\* ------------------------------------------------------------ abook.utils
\* divmod of non-negative operands.
DivMod(a, b) == <<a \div b, a % b>>

\* utils.format_duration: HH:MM:SS, two-digit zero-padded fields.
format_duration(n) ==
  LET ms == DivMod(n, 60)
      hm == DivMod(ms[1], 60)
  IN ZFill(hm[1], 2) \o ":" \o ZFill(hm[2], 2) \o ":" \o ZFill(ms[2], 2)

\* utils.parse_duration: hours*3600 + minutes*60 + seconds of the ':'-separated
\* integer fields (the callers' default '0' is a lone seconds field); malformed
\* text is an error.
FieldAt(fields, fromEnd) ==
  IF Len(fields) > fromEnd THEN IntOf(fields[Len(fields) - fromEnd]) ELSE 0
parse_duration(s) ==
  Let(Split(s, ":"), LAMBDA fields :
    IF Len(fields) > 3 \/ \E i \in 1..Len(fields) : ~IsIntText(fields[i])
    THEN Raise("ValueError: malformed duration")
    ELSE Ok(FieldAt(fields, 2) * 3600 + FieldAt(fields, 1) * 60
            + FieldAt(fields, 0)))

\* utils.first_of: the first element, or None for an empty sequence.
first_of(xs) == IF xs = <<>> THEN None ELSE xs[1]

Lower == "abcdefghijklmnopqrstuvwxyz"
Upper == "ABCDEFGHIJKLMNOPQRSTUVWXYZ"
IsAlnum(c) ==
  \/ IsDigit(c)
  \/ \E i \in 1..26 : CharAt(Lower, i) = c \/ CharAt(Upper, i) = c
ToLower(c) ==
  IF \E i \in 1..26 : CharAt(Upper, i) = c
  THEN CharAt(Lower, CHOOSE i \in 1..26 : CharAt(Upper, i) = c)
  ELSE c

\* utils.slugify: lower case, every run of other characters one '-', none at
\* either end.
RECURSIVE SlugFrom(_, _, _)
SlugFrom(s, i, pending) ==
  IF i > Len(s) THEN ""
  ELSE IF IsAlnum(CharAt(s, i))
       THEN (IF pending THEN "-" ELSE "") \o ToLower(CharAt(s, i))
            \o SlugFrom(s, i + 1, FALSE)
       ELSE SlugFrom(s, i + 1, pending \/ \E j \in 1..(i - 1) : IsAlnum(CharAt(s, j)))
slugify(s) == SlugFrom(s, 1, FALSE)

\* const.DEFAULT_LANG_CODE.
DEFAULT_LANG_CODE == "en"

IsLowerText(s) == \A i \in 1..Len(s) : \E j \in 1..26 : CharAt(Lower, j) = CharAt(s, i)
IsUpperText(s) == \A i \in 1..Len(s) : \E j \in 1..26 : CharAt(Upper, j) = CharAt(s, i)

\* utils.validate_lang_code: a two-letter code, optionally with a region.
validate_lang_code(s) ==
  /\ s # None
  /\ \/ Len(s) = 2 /\ IsLowerText(s)
     \/ /\ Len(s) = 5
        /\ IsLowerText(SubSeq(s, 1, 2))
        /\ CharAt(s, 3) \in {"-", "_"}
        /\ IsUpperText(SubSeq(s, 4, 5))

\* ------------------------------------------------------ abook.tagutils
SupportedInfo == {"OggVorbisInfo", "MPEGInfo", "MP4Info", "OggOpusInfo"}

\* The key under which each container stores a field (tagutils dispatch table).
TagKey(ftype, field) ==
  CASE ftype = "MPEGInfo" ->
         (CASE field = "artist" -> "TPE1" [] field = "album" -> "TALB"
            [] OTHER -> "TIT2")
    [] ftype = "MP4Info" ->
         (CASE field = "artist" -> "(c)ART" [] field = "album" -> "(c)alb"
            [] OTHER -> "(c)nam")
    [] OTHER -> field

\* single_item: the first of a list of values, any other value as it is.
single_item(tags) == IF tags = None THEN None ELSE first_of(tags)

\* id3_getter: the first text of an ID3 frame, None when the frame is absent
\* or empty.
id3_getter(tag, tags) ==
  LET v == DictGet(tags, tag, None)
  IN IF TruthyList(v) THEN single_item(v) ELSE None

\* int(x) of a float, here in milliseconds: truncation toward zero.
IntOfSeconds(ms) == IF ms < 0 THEN 0 - ((0 - ms) \div 1000) ELSE ms \div 1000

Tags(artist, album, title, duration, channels, sample_rate) ==
  [artist |-> artist, album |-> album, title |-> title, duration |-> duration,
   channels |-> channels, sample_rate |-> sample_rate]

\* mutagen.File(path) of a file mutagen does not recognise (Python's None).
NoFile == [unrecognised |-> TRUE]

\* A plausible slip: an unsupported container is read like a Vorbis one.
get_tags_AcceptsUnknown(file) ==
  IF file = NoFile
  THEN Raise("AttributeError: 'NoneType' object has no attribute 'info'")
  ELSE Ok(Tags(single_item(DictGet(file.tags, "artist", None)),
               single_item(DictGet(file.tags, "album", None)),
               single_item(DictGet(file.tags, "title", None)),
               IntOfSeconds(file.info.length), file.info.channels,
               SomeInt(file.info.sample_rate)))

\* get_tags, applied to what mutagen.File(file_path) returned: NoFile for a file
\* it does not recognise, else [info |-> [ftype, length, channels,
\* sample_rate], tags |-> key -> list of values].
get_tags(file) ==
  IF file = NoFile
  THEN Raise("AttributeError: 'NoneType' object has no attribute 'info'")
  ELSE
    LET duration == IntOfSeconds(file.info.length)
        ftype == file.info.ftype
        tags == file.tags
    IN CASE ftype = "OggVorbisInfo" ->
              Ok(Tags(single_item(DictGet(tags, "artist", None)),
                      single_item(DictGet(tags, "album", None)),
                      single_item(DictGet(tags, "title", None)),
                      duration, file.info.channels, SomeInt(file.info.sample_rate)))
         [] ftype = "MPEGInfo" ->
              Ok(Tags(id3_getter("TPE1", tags), id3_getter("TALB", tags),
                      id3_getter("TIT2", tags),
                      duration, file.info.channels, SomeInt(file.info.sample_rate)))
         [] ftype = "MP4Info" ->
              Ok(Tags(single_item(DictGet(tags, "(c)ART", None)),
                      single_item(DictGet(tags, "(c)alb", None)),
                      single_item(DictGet(tags, "(c)nam", None)),
                      duration, file.info.channels, SomeInt(file.info.sample_rate)))
         [] ftype = "OggOpusInfo" ->
              Ok(Tags(single_item(DictGet(tags, "artist", None)),
                      single_item(DictGet(tags, "album", None)),
                      single_item(DictGet(tags, "title", None)),
                      duration, file.info.channels, NoneInt))
         [] OTHER -> Raise("ValueError: Unknown file type")

\* ------------------------------------------------------------- Duration
\* A validator that lets every value through.
non_negative_Unchecked(value) == NoErr

\* non_negative: the attrs validator of Duration.duration.
non_negative(value) ==
  IF ~(value >= 0) THEN "ValueError: duration must be non-negative" ELSE NoErr

\* Duration(value): the validator runs in the generated __init__.
Duration(value) ==
  Let(non_negative(value), LAMBDA raised :
    IF raised # NoErr THEN Raise(raised) ELSE Ok([duration |-> value]))

\* Duration.__str__.
Duration_str(self) == format_duration(self.duration)

\* Duration.from_string.
Duration_from_string(s) == Then(parse_duration(s), LAMBDA v : Duration(v))

\* Duration._split.
Duration_split(self) ==
  LET ms == DivMod(self.duration, 60)
      hm == DivMod(ms[1], 60)
  IN <<hm[1], hm[2], ms[2]>>

\* Duration.__format__.
Duration_format(self, format) ==
  LET hms == Duration_split(self)
  IN IF format = "h:m:s.ms"
     THEN ZFill(hms[1], 2) \o ":" \o ZFill(hms[2], 2) \o ":" \o ZFill(hms[3], 2)
          \o ".000"
     ELSE ZFill(hms[1], 2) \o ":" \o ZFill(hms[2], 2) \o ":" \o ZFill(hms[3], 2)

\* -------------------------------------------------------------- Chapter
Chapter(name, start, end) == [name |-> name, start |-> start, end |-> end]

\* Chapter.from_dict.
Chapter_from_dict(d) ==
  IF "start" \notin DOMAIN d THEN Raise("KeyError: 'start'")
  ELSE
    Then(Duration_from_string(d["start"]), LAMBDA start :
    Then(Duration_from_string(DictGet(d, "end", "0")), LAMBDA end :
      IF "name" \notin DOMAIN d THEN Raise("KeyError: 'name'")
      ELSE Ok(Chapter(d["name"], start, end))))

\* A plausible slip: the end is written from the start.
Chapter_as_dict_EndFromStart(self) ==
  [name |-> self.name, start |-> Duration_str(self.start),
   end |-> Duration_str(self.start)]

\* Chapter.as_dict.
Chapter_as_dict(self) ==
  [name |-> self.name, start |-> Duration_str(self.start),
   end |-> Duration_str(self.end)]

\* ------------------------------------------------------------- Filelike
\* Filelike.as_dict.
Filelike_as_dict(self) == [path |-> self.path]

\* ------------------------------------------------------------- Artifact
\* Artifact(path, description, type='other').
Artifact(path, description, type) ==
  [path |-> path, description |-> description, type |-> type]
ArtifactDefaultType == "other"

\* Artifact.as_dict.
Artifact_as_dict(self) ==
  [path |-> Filelike_as_dict(self).path, description |-> self.description,
   type |-> self.type]

\* Artifact.from_dict: d.get('type') is passed on as it is, None included.
Artifact_from_dict(d) ==
  Artifact(DictGet(d, "path", None), DictGet(d, "description", None),
           DictGet(d, "type", None))

\* is_cover / is_fanart.
is_cover(artifact) == artifact.type = "cover"
is_fanart(artifact) == artifact.type = "fanart"

\* ------------------------------------------------------------ Audiofile
\* Audiofile(path, author, title, duration=0, explicit=False, chapters=[]).
Audiofile(path, author, title, duration, explicit, chapters) ==
  [path |-> path, author |-> author, title |-> title, duration |-> duration,
   explicit |-> explicit, chapters |-> chapters]

\* [Chapter.from_dict(cd) for cd in d.get('chapters', [])].
ChaptersOf(d) ==
  Let(DictGet(d, "chapters", <<>>), LAMBDA cds :
    Collect([i \in 1..Len(cds) |-> Chapter_from_dict(cds[i])]))

\* A plausible variant: the flag is read from the document.
Audiofile_from_dict_ReadsExplicit(d) ==
  Then(Duration_from_string(DictGet(d, "duration", "0")), LAMBDA duration :
  Then(ChaptersOf(d), LAMBDA chapters :
    Ok(Audiofile(DictGet(d, "path", None), DictGet(d, "author", None),
                 DictGet(d, "title", None), duration,
                 DictGet(d, "explicit", FALSE), chapters))))

\* Audiofile.from_dict: explicit is not passed, so it takes its default.
Audiofile_from_dict(d) ==
  Then(Duration_from_string(DictGet(d, "duration", "0")), LAMBDA duration :
  Then(ChaptersOf(d), LAMBDA chapters :
    Ok(Audiofile(DictGet(d, "path", None), DictGet(d, "author", None),
                 DictGet(d, "title", None), duration, FALSE, chapters))))

\* Audiofile.as_dict.
Audiofile_as_dict(self) ==
  [path |-> Filelike_as_dict(self).path, title |-> self.title,
   author |-> self.author, duration |-> Duration_str(self.duration),
   explicit |-> self.explicit,
   chapters |-> [i \in 1..Len(self.chapters) |-> Chapter_as_dict(self.chapters[i])]]

\* ---------------------------------------------------------------- Abook
\* lang_code: the attrs validator of Abook.lang.
lang_code(value) ==
  IF ~validate_lang_code(value)
  THEN "ValueError: lang contains invalid language code" ELSE NoErr

\* Abook(filename, authors, title, slug, description, lang, audiofiles, artifacts).
Abook(filename, authors, title, slug, description, lang, audiofiles, artifacts) ==
  Let(lang_code(lang), LAMBDA raised :
  IF raised # NoErr THEN Raise(raised)
  ELSE Ok([filename |-> filename, authors |-> authors, title |-> title,
           slug |-> slug, description |-> description, lang |-> lang,
           audiofiles |-> audiofiles, artifacts |-> artifacts]))

\* Abook.covers / has_cover.
covers(self) == SelectSeq(self.artifacts, is_cover)
has_cover(self) == covers(self) # <<>>

\* Abook.path: the directory of the manifest file.
RECURSIVE Parent(_)
Parent(p) ==
  IF p = "" THEN "."
  ELSE IF CharAt(p, Len(p)) = "/"
       THEN (IF Len(p) = 1 THEN "/" ELSE SubSeq(p, 1, Len(p) - 1))
       ELSE Parent(SubSeq(p, 1, Len(p) - 1))

\* `x or default`.
OrElse(x, default) == IF Truthy(x) THEN x ELSE default

\* Abook.from_dict.
Abook_from_dict(filename, d) ==
  Then(Let(DictGet(d, "audiofiles", <<>>), LAMBDA ads :
         Collect([i \in 1..Len(ads) |-> Audiofile_from_dict(ads[i])])),
       LAMBDA audiofiles :
  Let(DictGet(d, "artifacts", <<>>), LAMBDA rds :
    Abook(filename, DictGet(d, "authors", <<>>), DictGet(d, "title", None),
          DictGet(d, "slug", None),
          OrElse(DictGet(d, "description", None), ""),
          DictGet(d, "lang", DEFAULT_LANG_CODE),
          audiofiles,
          [i \in 1..Len(rds) |-> Artifact_from_dict(rds[i])])))

\* Abook.as_dict.
Abook_as_dict(self) ==
  [version |-> AbookVersion, authors |-> self.authors, title |-> self.title,
   slug |-> self.slug,
   description |-> OrElse(self.description, ""),
   lang |-> self.lang,
   audiofiles |-> [i \in 1..Len(self.audiofiles) |->
                     Audiofile_as_dict(self.audiofiles[i])],
   artifacts |-> [i \in 1..Len(self.artifacts) |->
                     Artifact_as_dict(self.artifacts[i])]]

\* ============================================================== state
VARIABLES
  cmd,           \* the subcommand run: "init", "transcode", or "roundtrip"
  pc,            \* position in the command
  err,           \* message of the exception that ended the command, or NoErr
  exit_code,     \* the process exit status once the command has ended
  fs,            \* init: the files under args.directory, in traversal order
  results,       \* init: scan.labeled_scan's result
  audio_files,   \* init: sorted(results['audio'])
  idx,           \* index of the audio file / track being processed
  audiofiles,    \* init: the Audiofile list built so far
  authors,       \* init: OrderedDict keys, in insertion order
  albums,        \* init: OrderedDict keys, in insertion order
  track_albums,  \* init: tags.album of each processed file (history)
  ftype,         \* type(tags.info) in the latest get_tags call (history)
  book,          \* the Abook in hand (built, loaded, or given)
  manifest,      \* the manifest document (written by init, read by transcode)
  written,       \* init: the output file has been opened for writing
  tags,          \* transcode: the Tags of the current track
  cover_filename,\* transcode: the resolved cover path, or None
  procs,         \* transcode: per track, the lame and opusenc processes
  reloaded       \* roundtrip: Abook.from_dict of the serialised document

vars == <<cmd, pc, err, exit_code, fs, results, audio_files, idx, audiofiles,
          authors, albums, track_albums, ftype, book, manifest, written, tags,
          cover_filename, procs, reloaded>>

\* Placeholders for records not yet there.
Absent == [absent |-> TRUE]

\* ------------------------------------------------------------- inputs
Paths == {"Z.x", "a.x", "a/b.x"}
ArtifactLabels == <<"cover", "fanart", "image">>
ScanLabels == {"audio", "cover", "fanart", "image"}

\* What the four matchers say of one file: an audio file, an image under one
\* or more of the artifact labels, or a file no matcher accepts.
LabelClasses ==
  { {"audio"}, {}, {"cover"}, {"image"}, {"cover", "image"}, {"fanart", "image"},
    {"cover", "fanart", "image"} }

FileListings ==
  UNION { { [i \in 1..n |-> [path |-> ps[i], labels |-> ls[i]]] :
              ps \in {q \in [1..n -> Paths] :
                        \A i, j \in 1..n : i # j => q[i] # q[j]},
              ls \in [1..n -> LabelClasses] } : n \in 0..MaxFiles }

\* What mutagen.File may return for an audio file.
InfoTypes == SupportedInfo \cup {"StreamInfo"}
TagValues(field) ==
  CASE field = "artist" -> {<<>>, <<"Ann", "Bob">>}
    [] field = "album" -> {<<>>, <<"">>, <<"Book One", "Other">>, <<"Zeta">>}
    [] OTHER -> {<<"Title">>}
\* A tag dictionary: an empty choice leaves the key out.
TagDict(infoType, artist, album, title) ==
  LET present == {f \in {"artist", "album", "title"} :
                    (CASE f = "artist" -> artist [] f = "album" -> album
                       [] OTHER -> title) # <<>>}
  IN [key \in {TagKey(infoType, f) : f \in present} |->
        CASE key = TagKey(infoType, "artist") -> artist
          [] key = TagKey(infoType, "album") -> album
          [] OTHER -> title]
FilesWith(lengths, artistChoices, albumChoices, titleChoices) ==
  {NoFile} \cup
  { [info |-> [ftype |-> t, length |-> len, channels |-> 2, sample_rate |-> 44100],
     tags |-> TagDict(t, ar, al, ti)] :
      t \in InfoTypes, len \in lengths, ar \in artistChoices, al \in albumChoices,
      ti \in titleChoices }
\* init reads every tag; transcode uses the stream parameters alone.
MutagenFiles ==
  FilesWith({65400, 0 - 1000}, TagValues("artist"), TagValues("album"),
            TagValues("title"))
TrackFiles == FilesWith({65400}, {<<"Ann", "Bob">>}, {<<"Zeta">>}, {<<"Title">>})

\* type(tags.info) as get_tags sees it.
InfoTypeOf(file) == IF file = NoFile THEN "NoneType" ELSE file.info.ftype

Directory == "/lib/book"
Output == "abook.yaml"

\* ------------------------------------------------------------ abook.scan
\* scan.labeled_scan: every file's relative path under each label whose
\* predicate accepts it, in traversal order.
labeled_scan(files, labels) ==
  [l \in labels |->
     LET Has(f) == l \in f.labels
         hits == SelectSeq(files, Has)
     IN [i \in 1..Len(hits) |-> hits[i].path]]

\* -------------------------------------------------------------- do_init
\* The check is left out.
NoAudioFound_Never(files) == FALSE

\* `if not audio_files` (main.py:260).
NoAudioFound(files) == files = <<>>

\* OrderedDict[key] = True: a new key goes last, a known key stays in place.
OrderedSet(keys, key) ==
  IF \E i \in 1..Len(keys) : keys[i] = key THEN keys ELSE Append(keys, key)

\* The last album seen instead of the first.
PickAlbum_Last(albumKeys) ==
  IF albumKeys # <<>> THEN albumKeys[Len(albumKeys)] ELSE "Unknown album"

\* main.py:281.
PickAlbum(albumKeys) ==
  IF albumKeys # <<>> THEN first_of(albumKeys) ELSE "Unknown album"

\* The dedup loop of main.py:283-289 over the (label, path) pairs still to
\* visit: done is the artifact list so far, unique the paths already added.
RECURSIVE ArtifactLoop(_, _, _)
ArtifactLoop(pairs, done, unique) ==
  IF pairs = <<>> THEN done
  ELSE LET c == pairs[1][1]
           result == pairs[1][2]
       IN IF result \in unique
          THEN ArtifactLoop(Tail(pairs), done, unique)
          ELSE ArtifactLoop(Tail(pairs), Append(done, Artifact(result, c, c)),
                            unique \cup {result})

RECURSIVE LabelPairs(_, _)
LabelPairs(res, labels) ==
  IF labels = <<>> THEN <<>>
  ELSE LET found == DictGet(res, labels[1], <<>>)
       IN [i \in 1..Len(found) |-> <<labels[1], found[i]>>]
          \o LabelPairs(res, Tail(labels))

\* Every hit becomes an Artifact: the `unique` test is lost.
BuildArtifacts_NoDedup(res) ==
  LET pairs == LabelPairs(res, ArtifactLabels)
  IN [i \in 1..Len(pairs) |-> Artifact(pairs[i][2], pairs[i][1], pairs[i][1])]

\* main.py:283-289.
BuildArtifacts(res) == ArtifactLoop(LabelPairs(res, ArtifactLabels), <<>>, {})

\* The loop body of main.py:266-279 for one file: the Audiofile and the
\* album tag, or the error that get_tags or Duration raised.
InitTrack(item_path, file) ==
  Then(get_tags(file), LAMBDA t :
  Then(Duration(t.duration), LAMBDA d :
    Ok([item |-> Audiofile(item_path,
                           IF Truthy(t.artist) THEN t.artist ELSE "Unknown artist",
                           t.title, d, FALSE, <<>>),
        album |-> t.album])))

InitInit ==
  /\ cmd = "init"
  /\ pc = "start"
  /\ fs \in FileListings
  /\ manifest = Absent
  /\ book = Absent

\* main.py:249-261.
DoInitScan ==
  /\ cmd = "init" /\ pc = "start"
  /\ results' = labeled_scan(fs, ScanLabels)
  /\ audio_files' = Sorted(DictGet(results', "audio", <<>>))
  /\ IF NoAudioFound(audio_files')
     THEN /\ err' = "No audio files found!"
          /\ exit_code' = SomeInt(1)
          /\ pc' = "failed"
     ELSE /\ pc' = "tags"
          /\ UNCHANGED <<err, exit_code>>
  /\ UNCHANGED <<ftype, cmd, fs, idx, audiofiles, authors, albums, track_albums, book,
                 manifest, written, tags, cover_filename, procs, reloaded>>

\* main.py:266-279, one iteration.
DoInitTrack ==
  /\ cmd = "init" /\ pc = "tags"
  /\ idx <= Len(audio_files)
  /\ \E file \in MutagenFiles :
     \E r \in {InitTrack(audio_files[idx], file)} :
       /\ ftype' = InfoTypeOf(file)
       /\ IF r.err # NoErr
          THEN /\ err' = r.err
               /\ exit_code' = SomeInt(1)
               /\ pc' = "failed"
               /\ UNCHANGED <<idx, audiofiles, authors, albums, track_albums>>
          ELSE /\ audiofiles' = Append(audiofiles, r.val.item)
               /\ albums' = IF Truthy(r.val.album)
                            THEN OrderedSet(albums, r.val.album) ELSE albums
               /\ authors' = OrderedSet(authors, r.val.item.author)
               /\ track_albums' = Append(track_albums, r.val.album)
               /\ idx' = idx + 1
               /\ UNCHANGED <<err, exit_code, pc>>
  /\ UNCHANGED <<cmd, fs, results, audio_files, book, manifest, written, tags,
                 cover_filename, procs, reloaded>>

\* main.py:281-303.
DoInitFinish ==
  /\ cmd = "init" /\ pc = "tags"
  /\ idx > Len(audio_files)
  /\ \E album \in {PickAlbum(albums)} :
     \E bundle \in {Abook(Directory, authors, album, slugify(album), None,
                          DEFAULT_LANG_CODE, audiofiles, BuildArtifacts(results))} :
        IF bundle.err # NoErr
        THEN /\ err' = bundle.err
             /\ exit_code' = SomeInt(1)
             /\ pc' = "failed"
             /\ UNCHANGED <<book, manifest, written>>
        ELSE /\ book' = bundle.val
             /\ written' = TRUE
             /\ manifest' = Abook_as_dict(bundle.val)
             /\ exit_code' = SomeInt(0)
             /\ pc' = "done"
             /\ UNCHANGED err
  /\ UNCHANGED <<ftype, cmd, fs, results, audio_files, idx, audiofiles, authors, albums,
                 track_albums, tags, cover_filename, procs, reloaded>>

\* --------------------------------------------------------- do_transcode
ManifestPath == Directory \o "/" \o Output
OutputDir == "/out"
\* str(args.bitrate) of the default 48.0, and the default --max-delay.
BitrateText == "48.0"

\* pathlib's a / b for a relative b.
PathJoin(a, b) == a \o "/" \o b

\* The index of the last sep in s, 0 when there is none.
LastIndex(s, sep) ==
  IF \E i \in 1..Len(s) : CharAt(s, i) = sep
  THEN CHOOSE i \in 1..Len(s) :
         /\ CharAt(s, i) = sep
         /\ \A j \in (i + 1)..Len(s) : CharAt(s, j) # sep
  ELSE 0

\* pathlib's with_suffix: the final component's suffix replaced (added when
\* it has none).
WithSuffix(p, suffix) ==
  LET slash == LastIndex(p, "/")
      dot == LastIndex(p, ".")
  IN IF dot > slash + 1 THEN SubSeq(p, 1, dot - 1) \o suffix ELSE p \o suffix

\* main.py:331-338.
RECURSIVE ChapterComments(_, _)
ChapterComments(chapters, i) ==
  IF i >= Len(chapters) THEN <<>>
  ELSE << "--comment",
          "CHAPTER" \o ZFill(i, 3) \o "="
             \o Duration_format(chapters[i + 1].start, "hh:mm:ss.ms"),
          "--comment",
          "CHAPTER" \o ZFill(i, 3) \o "NAME=" \o chapters[i + 1].name >>
       \o ChapterComments(chapters, i + 1)

\* main.py:339-365.
OpusencArgs(bk, af, t, cover) ==
  << "opusenc", "--quiet", "--raw",
     "--raw-rate", OptIntStr(t.sample_rate),
     "--raw-chan", IntStr(t.channels),
     "--bitrate", BitrateText,
     "--max-delay", IntStr(DefaultMaxDelay),
     "--artist", IF Truthy(af.author) THEN af.author ELSE Join(", ", bk.authors) >>
  \o ChapterComments(af.chapters, 0)
  \o << "--album", bk.title, "--title", af.title, "-",
        WithSuffix(PathJoin(OutputDir, af.path), ".opus") >>
  \o (IF Truthy(cover) THEN <<"--picture", "3||Front Cover||" \o cover>> ELSE <<>>)

NoProc == [lame |-> "none", opusenc |-> "none", args |-> <<>>]

\* The manifest documents transcode is run on.
ChapterNames == <<"Intro", "Part: Two", "End", "Coda">>
StartTexts == <<"00:00:00", "00:01:05", "01:01:01", "27:46:40">>
EndTexts == <<"00:01:05", "01:01:01", "27:46:40", "100:00:00">>
PoolAt(pool, j) == pool[((j - 1) % Len(pool)) + 1]

ChapterDocs(n, shift) ==
  [j \in 1..n |->
     IF j % 2 = 1
     THEN [name |-> PoolAt(ChapterNames, j + shift),
           start |-> PoolAt(StartTexts, j + shift),
           end |-> PoolAt(EndTexts, j + shift)]
     ELSE [name |-> PoolAt(ChapterNames, j + shift),
           start |-> PoolAt(StartTexts, j + shift)]]

TrackVariants == {"full", "bare", "short", "negative", "badchapter"}
TrackDoc(i, v) ==
  LET base == [path |-> "t" \o IntStr(i) \o ".mp3", title |-> "Part " \o IntStr(i)]
  IN CASE v = "full" ->
            [path |-> base.path, title |-> base.title, author |-> "Ann",
             duration |-> "00:01:05", explicit |-> TRUE,
             chapters |-> ChapterDocs(MaxChapters, 0)]
       [] v = "short" ->
            [path |-> base.path, title |-> base.title, author |-> "",
             duration |-> "01:01:01", explicit |-> FALSE,
             chapters |-> ChapterDocs(1, i)]
       [] v = "negative" ->
            [path |-> base.path, title |-> base.title, duration |-> "00:00:-5"]
       [] v = "badchapter" ->
            [path |-> base.path, title |-> base.title,
             chapters |-> <<[name |-> "Intro", start |-> "-1"]>>]
       [] OTHER -> base

ArtifactDocPool ==
  << [path |-> "img.jpg", description |-> "image"],
     [path |-> "cover.jpg", description |-> "cover", type |-> "cover"],
     [path |-> "front.jpg", type |-> "cover"],
     [path |-> "fan.jpg", description |-> "fanart", type |-> "fanart"] >>
ArtifactDocLists ==
  { [i \in 1..n |-> PoolAt(ArtifactDocPool, i)] : n \in 0..MaxArtifacts }

TopVariants == {"full", "bare", "badlang"}
ManifestDoc(v, tracks, arts) ==
  CASE v = "full" ->
         [version |-> AbookVersion, authors |-> <<"Ann", "Bob">>,
          title |-> "Book One", slug |-> "book-one", description |-> "A book",
          lang |-> "pl", audiofiles |-> tracks, artifacts |-> arts]
    [] v = "badlang" ->
         [version |-> AbookVersion, title |-> "Book One", slug |-> "book-one",
          lang |-> "??", audiofiles |-> tracks, artifacts |-> arts]
    [] OTHER ->
         IF tracks = <<>> /\ arts = <<>>
         THEN [title |-> "Book One", slug |-> "book-one"]
         ELSE [title |-> "Book One", slug |-> "book-one",
               audiofiles |-> tracks, artifacts |-> arts]

ManifestDocs ==
  { ManifestDoc(v, [i \in 1..Len(tv) |-> TrackDoc(i, tv[i])], arts) :
      v \in TopVariants, arts \in ArtifactDocLists,
      tv \in UNION {[1..m -> TrackVariants] : m \in 0..MaxTracks} }


TranscodeInit ==
  /\ cmd = "transcode"
  /\ pc = "start"
  /\ fs = <<>>
  /\ manifest \in ManifestDocs
  /\ book = Absent

\* main.py:307-316.
DoTranscodeLoad ==
  /\ cmd = "transcode" /\ pc = "start"
  /\ \E b \in {Abook_from_dict(ManifestPath, manifest)} :
        IF b.err # NoErr
        THEN /\ err' = b.err
             /\ exit_code' = SomeInt(1)
             /\ pc' = "failed"
             /\ UNCHANGED <<book, cover_filename, procs>>
        ELSE /\ book' = b.val
             /\ cover_filename' =
                  IF ~has_cover(b.val) THEN None
                  ELSE PathJoin(Parent(b.val.filename), first_of(covers(b.val)).path)
             /\ procs' = [j \in 1..Len(b.val.audiofiles) |-> NoProc]
             /\ pc' = "loop"
             /\ UNCHANGED <<err, exit_code>>
  /\ UNCHANGED <<ftype, cmd, fs, results, audio_files, idx, audiofiles, authors, albums,
                 track_albums, manifest, written, tags, reloaded>>

\* main.py:318-330: the next track's tags are read and lame is started.
DoTranscodeLame ==
  /\ cmd = "transcode" /\ pc = "loop"
  /\ idx <= Len(book.audiofiles)
  /\ \E file \in TrackFiles :
     \E t \in {get_tags(file)} :
       /\ ftype' = InfoTypeOf(file)
       /\ IF t.err # NoErr
          THEN /\ err' = t.err
               /\ exit_code' = SomeInt(1)
               /\ pc' = "failed"
               /\ UNCHANGED <<tags, procs>>
          ELSE /\ tags' = t.val
               /\ procs' = [procs EXCEPT ![idx].lame = "running"]
               /\ pc' = "lame_started"
               /\ UNCHANGED <<err, exit_code>>
  /\ UNCHANGED <<cmd, fs, results, audio_files, idx, audiofiles, authors, albums,
                 track_albums, book, manifest, written, cover_filename, reloaded>>

\* main.py:331-367: opusenc is started on lame's output.
DoTranscodeOpusenc ==
  /\ cmd = "transcode" /\ pc = "lame_started"
  /\ procs' = [procs EXCEPT
                 ![idx].opusenc = "running",
                 ![idx].args = OpusencArgs(book, book.audiofiles[idx], tags,
                                           cover_filename)]
  /\ pc' = "communicate"
  /\ UNCHANGED <<ftype, cmd, err, exit_code, fs, results, audio_files, idx, audiofiles,
                 authors, albums, track_albums, book, manifest, written, tags,
                 cover_filename, reloaded>>

\* main.py:368: opusenc.communicate() returns once opusenc has exited; lame
\* is not waited for.
DoTranscodeCommunicate ==
  /\ cmd = "transcode" /\ pc = "communicate"
  /\ procs[idx].opusenc = "exited"
  /\ idx' = idx + 1
  /\ pc' = "loop"
  /\ UNCHANGED <<ftype, cmd, err, exit_code, fs, results, audio_files, audiofiles,
                 authors, albums, track_albums, book, manifest, written, tags,
                 cover_filename, procs, reloaded>>

\* main.py:318: the loop is exhausted and do_transcode returns.
DoTranscodeReturn ==
  /\ cmd = "transcode" /\ pc = "loop"
  /\ idx > Len(book.audiofiles)
  /\ pc' = "done"
  /\ exit_code' = SomeInt(0)
  /\ UNCHANGED <<ftype, cmd, err, fs, results, audio_files, idx, audiofiles, authors,
                 albums, track_albums, book, manifest, written, tags,
                 cover_filename, procs, reloaded>>

\* The external decoder of some track ends (on its own schedule).
LameExits ==
  /\ \E j \in 1..Len(procs) :
       /\ procs[j].lame = "running"
       /\ procs' = [procs EXCEPT ![j].lame = "exited"]
  /\ UNCHANGED <<ftype, cmd, pc, err, exit_code, fs, results, audio_files, idx,
                 audiofiles, authors, albums, track_albums, book, manifest,
                 written, tags, cover_filename, reloaded>>

\* The external encoder of some track ends (on its own schedule).
OpusencExits ==
  /\ \E j \in 1..Len(procs) :
       /\ procs[j].opusenc = "running"
       /\ procs' = [procs EXCEPT ![j].opusenc = "exited"]
  /\ UNCHANGED <<ftype, cmd, pc, err, exit_code, fs, results, audio_files, idx,
                 audiofiles, authors, albums, track_albums, book, manifest,
                 written, tags, cover_filename, reloaded>>

\* ------------------------------------------- as_dict / from_dict round trip
\* The Bundles the round trip is applied to.
StartValues == <<0, 65, 3661, 100000>>
EndValues == <<65, 0, 100000, 360000>>
ChapterObjs(n) ==
  [j \in 1..n |-> Chapter(PoolAt(ChapterNames, j),
                          Duration(PoolAt(StartValues, j)).val,
                          Duration(PoolAt(EndValues, j)).val)]
TrackObjs ==
  UNION { { [i \in 1..n |->
               Audiofile("t" \o IntStr(i) \o ".mp3",
                         IF i % 2 = 1 THEN "Ann" ELSE None,
                         "Part " \o IntStr(i),
                         Duration(PoolAt(EndValues, i)).val, ex[i],
                         ChapterObjs(cs[i]))] :
              ex \in [1..n -> BOOLEAN],
              cs \in [1..n -> 0..MaxChapters] } : n \in 0..MaxTracks }
ArtifactObjPool ==
  << Artifact("cover.jpg", "cover", "cover"), Artifact("fan.jpg", "fanart", "fanart"),
     Artifact("x.png", None, "other"), Artifact("y.png", "image", "image") >>
Bundles ==
  { Abook(ManifestPath, au, "Book One", slugify("Book One"), de, la, tr,
          [i \in 1..m |-> PoolAt(ArtifactObjPool, i)]).val :
      au \in {<<>>, <<"Ann", "Bob">>}, de \in {None}, la \in {"pl"},
      tr \in TrackObjs, m \in 0..MaxArtifacts }

RoundTripInit ==
  /\ cmd = "roundtrip"
  /\ pc = "start"
  /\ fs = <<>>
  /\ manifest = Absent
  /\ book \in Bundles

\* Abook.as_dict of the Bundle.
DoAsDict ==
  /\ cmd = "roundtrip" /\ pc = "start"
  /\ manifest' = Abook_as_dict(book)
  /\ pc' = "dumped"
  /\ UNCHANGED <<ftype, cmd, err, exit_code, fs, results, audio_files, idx, audiofiles,
                 authors, albums, track_albums, book, written, tags,
                 cover_filename, procs, reloaded>>

\* Abook.from_dict of the document.
DoFromDict ==
  /\ cmd = "roundtrip" /\ pc = "dumped"
  /\ \E b \in {Abook_from_dict(book.filename, manifest)} :
        IF b.err # NoErr
        THEN /\ err' = b.err /\ pc' = "failed" /\ UNCHANGED reloaded
        ELSE /\ reloaded' = b.val /\ pc' = "done" /\ UNCHANGED err
  /\ UNCHANGED <<ftype, cmd, exit_code, fs, results, audio_files, idx, audiofiles,
                 authors, albums, track_albums, book, manifest, written, tags,
                 cover_filename, procs>>

\* ------------------------------------------------------- specification
Init ==
  /\ err = NoErr
  /\ exit_code = NoneInt
  /\ results = Absent
  /\ audio_files = <<>>
  /\ idx = 1
  /\ audiofiles = <<>>
  /\ authors = <<>>
  /\ albums = <<>>
  /\ track_albums = <<>>
  /\ ftype = ""
  /\ written = FALSE
  /\ tags = Absent
  /\ cover_filename = None
  /\ procs = <<>>
  /\ reloaded = Absent
  /\ (InitInit \/ TranscodeInit \/ RoundTripInit)

Next ==
  \/ DoInitScan
  \/ DoInitTrack
  \/ DoInitFinish
  \/ DoTranscodeLoad
  \/ DoTranscodeLame
  \/ DoTranscodeOpusenc
  \/ DoTranscodeCommunicate
  \/ DoTranscodeReturn
  \/ LameExits
  \/ OpusencExits
  \/ DoAsDict
  \/ DoFromDict

Spec == Init /\ [][Next]_vars

\* ============================================================== claims
Launched(p) == p.lame # "none" \/ p.opusenc # "none"
Ended(p) == p.lame = "exited" /\ p.opusenc = "exited"

\* C1: in do_transcode both processes of track k (lame and opusenc) have
\* ended before any process of track k+1 is launched, and before the command
\* returns after the last track.
C1_BothEndedBeforeNextTrack ==
  cmd = "transcode" =>
    /\ \A j \in 1..(Len(procs) - 1) : Launched(procs[j + 1]) => Ended(procs[j])
    /\ pc = "done" => \A j \in 1..Len(procs) : Ended(procs[j])

\* The chapter form of the claim: hh:mm:ss followed by the literal '.000'.
ChapterForm(d) == format_duration(d.duration) \o ".000"

HasChapterPair(args, i, chapter) ==
  \E q \in 1..(Len(args) - 3) :
    /\ args[q] = "--comment"
    /\ args[q + 1] = "CHAPTER" \o ZFill(i, 3) \o "=" \o ChapterForm(chapter.start)
    /\ args[q + 2] = "--comment"
    /\ args[q + 3] = "CHAPTER" \o ZFill(i, 3) \o "NAME=" \o chapter.name

\* C2: for every track and every chapter at zero-based index i, the opusenc
\* argument list holds the comment CHAPTER<iii>=<start as hh:mm:ss.000>
\* immediately followed by the comment CHAPTER<iii>NAME=<chapter name>.
C2_ChapterComments ==
  cmd = "transcode" =>
    \A j \in 1..Len(procs) :
      procs[j].opusenc # "none" =>
        \A i \in 0..(Len(book.audiofiles[j].chapters) - 1) :
          HasChapterPair(procs[j].args, i, book.audiofiles[j].chapters[i + 1])

Under(label, path) ==
  \E i \in 1..Len(results[label]) : results[label][i] = path
FirstLabel(path) ==
  ArtifactLabels[CHOOSE n \in 1..Len(ArtifactLabels) :
                   /\ Under(ArtifactLabels[n], path)
                   /\ \A m \in 1..(n - 1) : ~Under(ArtifactLabels[m], path)]
ArtifactPaths ==
  {p \in Paths : \E n \in 1..Len(ArtifactLabels) : Under(ArtifactLabels[n], p)}

\* C3: after do_init every path found under cover, fanart or image has
\* exactly one Artifact, typed with the first of those labels (in that order)
\* under which it occurs, and no Artifact exists for any other path.
C3_ArtifactDedup ==
  (cmd = "init" /\ pc = "done") =>
    /\ \A p \in ArtifactPaths :
         /\ Cardinality({i \in 1..Len(book.artifacts) :
                           book.artifacts[i].path = p}) = 1
         /\ \A i \in 1..Len(book.artifacts) :
              book.artifacts[i].path = p => book.artifacts[i].type = FirstLabel(p)
    /\ \A i \in 1..Len(book.artifacts) : book.artifacts[i].path \in ArtifactPaths

\* A finished init in which one path was found under all three labels and
\* another under two.
C3_Witness ==
  /\ cmd = "init" /\ pc = "done"
  /\ \E p \in Paths : \A n \in 1..3 : Under(ArtifactLabels[n], p)
  /\ Len(book.artifacts) = 1

\* C4: a scan without audio files ends do_init with the fatal message
\* 'No audio files found!' and a non-zero exit, the manifest neither opened
\* nor written; the manifest is written only after the audio list was found
\* non-empty.
C4_EmptyScanFatal ==
  cmd = "init" =>
    /\ written => audio_files # <<>>
    /\ (pc # "start" /\ results["audio"] = <<>>) =>
         /\ pc = "failed"
         /\ err = "No audio files found!"
         /\ exit_code # NoneInt /\ exit_code # SomeInt(0)
         /\ ~written
         /\ manifest = Absent

\* An init over a directory that holds files, none of them audio.
C4_Witness ==
  /\ cmd = "init" /\ pc = "failed"
  /\ err = "No audio files found!"
  /\ Len(fs) = MaxFiles

SameTrack(a, b) ==
  /\ a.title = b.title
  /\ a.author = b.author
  /\ a.duration = b.duration
  /\ Len(a.chapters) = Len(b.chapters)
  /\ \A c \in 1..Len(a.chapters) :
       /\ a.chapters[c].name = b.chapters[c].name
       /\ a.chapters[c].start = b.chapters[c].start
       /\ a.chapters[c].end = b.chapters[c].end

\* C6: as_dict of a Bundle with N tracks and M artifacts gives a document
\* with N audiofiles and M artifacts, and from_dict of that document gives a
\* Bundle with the same authors, title, slug and language and, track by track
\* in order, the same title, author, duration and chapters.
C6_RoundTrip ==
  cmd = "roundtrip" =>
    /\ pc # "failed"
    /\ pc # "start" =>
         /\ Len(manifest.audiofiles) = Len(book.audiofiles)
         /\ Len(manifest.artifacts) = Len(book.artifacts)
    /\ pc = "done" =>
         /\ reloaded.authors = book.authors
         /\ reloaded.title = book.title
         /\ reloaded.slug = book.slug
         /\ reloaded.lang = book.lang
         /\ Len(reloaded.audiofiles) = Len(book.audiofiles)
         /\ \A i \in 1..Len(book.audiofiles) :
              SameTrack(reloaded.audiofiles[i], book.audiofiles[i])

\* A finished round trip of a Bundle with two tracks or more, one of them
\* with two chapters or more, and an artifact.
C6_Witness ==
  /\ cmd = "roundtrip" /\ pc = "done"
  /\ Len(book.audiofiles) >= 2
  /\ \E i \in 1..Len(book.audiofiles) : Len(book.audiofiles[i].chapters) >= 2
  /\ Len(book.artifacts) >= 1

\* C7: an artifact entry without a type field is loaded as an Artifact of
\* type 'other', the default of the constructor.
C7_MissingTypeIsOther ==
  (cmd = "transcode" /\ book # Absent) =>
    \A i \in 1..Len(book.artifacts) :
      "type" \notin DOMAIN manifest.artifacts[i] =>
        book.artifacts[i].type = ArtifactDefaultType

Carrying == {i \in 1..Len(track_albums) : Truthy(track_albums[i])}

\* C8: do_init's bundle title is 'Unknown album' when no track has a
\* non-empty album tag, else the album tag of the first track, in sorted
\* path order, that has one; the slug is slugify of that title.
C8_AlbumTitle ==
  (cmd = "init" /\ pc = "done") =>
    /\ \A i \in 1..Len(audio_files) : book.audiofiles[i].path = audio_files[i]
    /\ \A i, j \in 1..Len(audio_files) :
         i < j => StrLess(audio_files[i], audio_files[j])
    /\ \A p \in Paths : Under("audio", p) <=>
                          \E i \in 1..Len(audio_files) : audio_files[i] = p
    /\ Len(track_albums) = Len(audio_files)
    /\ IF Carrying = {} THEN book.title = "Unknown album"
       ELSE book.title =
              track_albums[CHOOSE i \in Carrying : \A j \in Carrying : i <= j]
    /\ book.slug = slugify(book.title)

\* A finished init whose tracks, scanned out of path order, carry two
\* different album tags.
C8_Witness ==
  /\ cmd = "init" /\ pc = "done"
  /\ Len(track_albums) = 2
  /\ Truthy(track_albums[1]) /\ Truthy(track_albums[2])
  /\ track_albums[1] # track_albums[2]
  /\ results["audio"] # audio_files

TrackDurationsOk(af) ==
  /\ af.duration.duration >= 0
  /\ \A c \in 1..Len(af.chapters) :
       af.chapters[c].start.duration >= 0 /\ af.chapters[c].end.duration >= 0
BookDurationsOk(b) ==
  b # Absent => \A i \in 1..Len(b.audiofiles) : TrackDurationsOk(b.audiofiles[i])

Negative(text) == parse_duration(text).err = NoErr /\ parse_duration(text).val < 0
TrackDocNegative(d) ==
  \/ Negative(DictGet(d, "duration", "0"))
  \/ \E c \in 1..Len(DictGet(d, "chapters", <<>>)) :
       \/ Negative(d.chapters[c].start)
       \/ Negative(DictGet(d.chapters[c], "end", "0"))

\* C9: a Duration of a negative value, given directly or through
\* from_string, is an error and no Duration; every Duration there is, built by
\* do_init from tags or by from_dict from a manifest, has a value >= 0.
C9_DurationNonNegative ==
  /\ \A i \in 1..Len(audiofiles) : TrackDurationsOk(audiofiles[i])
  /\ BookDurationsOk(book)
  /\ BookDurationsOk(reloaded)
  /\ \A v \in {0 - 5, 0 - 1} :
       /\ Duration(v).err = "ValueError: duration must be non-negative"
       /\ Duration_from_string(IntStr(v)).err
            = "ValueError: duration must be non-negative"
  /\ (cmd = "transcode" /\ pc # "start"
        /\ \E i \in 1..Len(DictGet(manifest, "audiofiles", <<>>)) :
             TrackDocNegative(manifest.audiofiles[i])) =>
       /\ pc = "failed"
       /\ err = "ValueError: duration must be non-negative"
       /\ book = Absent

\* A manifest whose second track has a negative duration has been refused by
\* from_dict.
C9_Witness ==
  /\ pc = "failed"
  /\ err = "ValueError: duration must be non-negative"
  /\ cmd = "transcode"
  /\ Len(manifest.audiofiles) = 2
  /\ ~TrackDocNegative(manifest.audiofiles[1])

\* C10: Audiofile.from_dict never reads 'explicit': every loaded track has
\* explicit = false whatever the manifest says, so a track whose flag is true
\* comes back from as_dict / from_dict with the flag false.
C10_ExplicitDropped ==
  /\ (cmd = "transcode" /\ book # Absent) =>
       \A i \in 1..Len(book.audiofiles) : book.audiofiles[i].explicit = FALSE
  /\ (cmd = "roundtrip" /\ pc # "start") =>
       \A i \in 1..Len(book.audiofiles) :
         manifest.audiofiles[i].explicit = book.audiofiles[i].explicit
  /\ (cmd = "roundtrip" /\ pc = "done") =>
       \A i \in 1..Len(reloaded.audiofiles) :
         reloaded.audiofiles[i].explicit = FALSE

\* A finished round trip of a Bundle with a track flagged explicit.
C10_Witness ==
  /\ cmd = "roundtrip" /\ pc = "done"
  /\ \E i \in 1..Len(book.audiofiles) : book.audiofiles[i].explicit
  /\ \A i \in 1..Len(reloaded.audiofiles) : ~reloaded.audiofiles[i].explicit

====
